---- MODULE Spec2Model ----
(***************************************************************************)
(* Model of compress/image_publisher.py: the ImagePublisher node.          *)
(*                                                                         *)
(* __init__ reads the parameters, globs and sorts the image paths, creates *)
(* the two publishers and the timer.  rclpy.spin then runs timer_callback  *)
(* each time the timer is ready.  timer_callback is modelled in four steps *)
(* (lines 81-96, 98-105, 107-125, 127-131) so that a timer period can pass *)
(* between them.  Time is counted in timer periods.  hist and tickNo, and  *)
(* the tick and seq fields of a message, record the run for the            *)
(* properties; the code does not hold them.  main ends the spin on         *)
(* KeyboardInterrupt (Interrupt).                                          *)
(*                                                                         *)
(* Spec is the node with bounded time and failures, SpecLoad the same node *)
(* started on directories with mixed-case extensions, SpecLive the node    *)
(* with atomic ticks and no bounds, for the properties of endless runs.    *)
(*                                                                         *)
(* A file name is the tuple of the code points of its characters, which is *)
(* what Python compares when it sorts strings.  All paths share the prefix *)
(* img_folder + "/", so the order of the paths is the order of the names.  *)
(***************************************************************************)
EXTENDS Integers, Sequences, FiniteSets, TLC

\* ------------------------------------------------------------------ bounds
MaxFiles == 3
MaxClock == 4
MaxFaults == 2

\* ------------------------------------------------------- names and strings
\* "a.png", "b.png", "c.jpg", "n.txt"
A_PNG == <<97, 46, 112, 110, 103>>
B_PNG == <<98, 46, 112, 110, 103>>
C_JPG == <<99, 46, 106, 112, 103>>
N_TXT == <<110, 46, 116, 120, 116>>

Universe == {A_PNG, B_PNG, C_JPG, N_TXT}

\* "d.JPG", "e.jpeg", "f.Png": names for the load with mixed-case extensions
D_JPG_UPPER == <<100, 46, 74, 80, 71>>
E_JPEG == <<101, 46, 106, 112, 101, 103>>
F_PNG_MIXED == <<102, 46, 80, 110, 103>>

UniverseLoad == {A_PNG, D_JPG_UPPER, E_JPEG, F_PNG_MIXED, N_TXT}

\* the suffixes of the patterns '*.jpg', '*.jpeg', '*.png' (line 43), in order
types == << <<46, 106, 112, 103>>, <<46, 106, 112, 101, 103>>, <<46, 112, 110, 103>> >>

\* Python's None; a value v that may also be None is held as <<v>>
None == <<>>
Some(v) == <<v>>

\* Python's str.__lt__: code-point lexicographic order
StrLess(s, t) ==
    \E i \in 1..(Len(s) + 1) :
        /\ \A j \in 1..(i - 1) : j <= Len(t) /\ s[j] = t[j]
        /\ \/ i = Len(s) + 1 /\ Len(t) >= i
           \/ i <= Len(s) /\ i <= Len(t) /\ s[i] < t[i]

\* fnmatch of '*' + suffix on a POSIX file system (case-sensitive); glob does
\* not let '*' match a leading dot
GlobMatch(name, suffix) ==
    /\ Len(name) >= Len(suffix)
    /\ name[1] # 46
    /\ \A i \in 1..Len(suffix) : name[Len(name) - Len(suffix) + i] = suffix[i]

\* every order in which a directory scan can list the set S
Orders(S) ==
    {s \in [1..Cardinality(S) -> S] : \A i, j \in 1..Cardinality(S) : s[i] = s[j] => i = j}

\* glob.glob(os.path.join(img_folder, pattern)): the matching entries, in the
\* order the directory scan produced them
Glob(entries, suffix) == Orders({n \in entries : GlobMatch(n, suffix)})

\* list.sort() of line 46, as insertion into an ordered list
RECURSIVE InsertSorted(_, _)
InsertSorted(x, s) ==
    IF s = <<>> THEN <<x>>
    ELSE IF StrLess(x, Head(s)) THEN <<x>> \o s
    ELSE <<Head(s)>> \o InsertSorted(x, Tail(s))

\* the sort left out: the list stays in discovery order
SortPathsOmitted(s) == s

RECURSIVE SortPaths(_)
SortPaths(s) ==
    IF s = <<>> THEN <<>>
    ELSE InsertSorted(s[Len(s)], SortPaths(SubSeq(s, 1, Len(s) - 1)))

\* lines 38-46: the image list built from what the three globs returned
LoadImages(exists, jpg, jpeg, png) ==
    IF ~exists THEN <<>> ELSE SortPaths(jpg \o jpeg \o png)

\* the wrap test one frame early
AdvanceIndexEarly(idx, n) ==
    IF idx + 1 >= n - 1 THEN 0 ELSE idx + 1

\* the wrap test written with > instead of >=
AdvanceIndexLate(idx, n) ==
    IF idx + 1 > n THEN 0 ELSE idx + 1

\* the wrap forgotten
AdvanceIndexNoWrap(idx, n) == idx + 1

\* _advance_index, lines 133-136 (0-based, as in the code)
AdvanceIndex(idx, n) ==
    IF idx + 1 >= n THEN 0 ELSE idx + 1

\* the call of _advance_index on the decode-failure path left out
AfterDecodeFailureStay(idx, n) == idx

\* the cursor advanced at line 93 and once more at line 131
AfterDecodeFailureTwice(idx, n) == AdvanceIndex(AdvanceIndex(idx, n), n)

\* line 93: the cursor after a failed decode
AfterDecodeFailure(idx, n) == AdvanceIndex(idx, n)

\* the guard for the empty list left out
IsIdleNever(paths) == FALSE

\* the publishers and the timer created only when images were found
CreatesOnlyWithImages(paths) ==
    IF paths = <<>> THEN {} ELSE {"pub_raw", "pub_compressed", "timer"}

\* lines 66-78: what __init__ creates after the load, whatever the load found
Creates(paths) == {"pub_raw", "pub_compressed", "timer"}

\* the period of the declared default of 15 Hz, whatever the parameter says
PeriodNsOfDefault(f) == 1000000000 \div 15

\* lines 77-78: 1.0 / freq seconds, which create_timer keeps in whole nanoseconds
PeriodNs(f) == 1000000000 \div f

\* line 82: "if not self.images_path"
IsIdle(paths) == paths = <<>>

\* the test for a failed decode left out
DecodeFailedNever(cv_img) == FALSE

\* line 91: "if cv_img is None"
DecodeFailed(cv_img) == cv_img = None

\* line 128: the condition of the throttled info log
LogDue(idx) == idx % 15 = 0

\* ------------------------------------------------------------------- state
VARIABLES
    img_folder,      \* the directory named by image_folder: [exists, entries]
    freq,            \* publish_frequency
    topic_name,
    frame_id,
    png_level,
    images_path,     \* sorted list of the image names
    current_index,   \* 0-based cursor into images_path
    pub_raw,         \* messages published on topic_name, oldest first
    pub_compressed,  \* messages published on topic_name/compressed
    created,         \* what __init__ created: publishers and timer
    timer_period,    \* the period of the timer in nanoseconds, None without a timer
    timer_ready,     \* the timer's period has elapsed and it has not been called
    clock,           \* the node clock, as get_clock().now() reads it, in timer periods
    frames,          \* the timer_callback invocations in progress
    proc,            \* "spinning", "crashed" once an exception left spin, or "shutdown"
    tickNo,          \* number of timer_callback invocations so far
    hist             \* one record per invocation that read a frame

vars == <<img_folder, freq, topic_name, frame_id, png_level, images_path,
          created, timer_period, current_index, pub_raw, pub_compressed, timer_ready, clock, frames,
          proc, tickNo, hist>>

config == <<img_folder, freq, topic_name, frame_id, png_level, images_path,
            created, timer_period>>

\* parameter sets: the declared defaults (lines 26-29) and an override
Parameters ==
    { [publish_frequency |-> 15, topic_name |-> "camera/image_raw",
       frame_id |-> "camera_link", png_compression_level |-> 3],
      [publish_frequency |-> 10, topic_name |-> "cam",
       frame_id |-> "base", png_compression_level |-> 9] }

Directories == {d \in SUBSET Universe : Cardinality(d) <= MaxFiles}

\* the declared defaults alone, and the directories with mixed-case names
ParametersDefault == {p \in Parameters : p.publish_frequency = 15}
DirectoriesLoad == {d \in SUBSET UniverseLoad : Cardinality(d) <= MaxFiles}

N == Len(images_path)

\* ---------------------------------------------------------------- __init__
InitFrom(params, dirs) ==
    /\ \E p \in params :
        /\ freq = p.publish_frequency
        /\ topic_name = p.topic_name
        /\ frame_id = p.frame_id
        /\ png_level = p.png_compression_level
    /\ \E exists \in BOOLEAN, d \in dirs :
        /\ exists \/ d = {}
        /\ img_folder = [exists |-> exists, entries |-> d]
        /\ \E jpg \in Glob(d, types[1]), jpeg \in Glob(d, types[2]),
              png \in Glob(d, types[3]) :
            images_path = LoadImages(exists, jpg, jpeg, png)
    /\ current_index = 0
    /\ created = Creates(images_path)
    /\ timer_period = IF "timer" \in created THEN Some(PeriodNs(freq)) ELSE None
    /\ pub_raw = <<>>
    /\ pub_compressed = <<>>
    /\ timer_ready = FALSE
    /\ clock = 0
    /\ frames = {}
    /\ proc = "spinning"
    /\ tickNo = 0
    /\ hist = <<>>

Init == InitFrom(Parameters, Directories)

\* the node started on a directory that may hold mixed-case extensions
InitLoad == InitFrom(ParametersDefault, DirectoriesLoad)

\* ------------------------------------------------------------- environment
\* one timer period of line 77 passes, also while a callback is still running:
\* the clock, counted in periods, moves on and the timer of line 78 is ready
TimerFire ==
    /\ proc = "spinning"
    /\ "timer" \in created
    /\ clock < MaxClock
    /\ clock' = clock + 1
    /\ timer_ready' = TRUE
    /\ UNCHANGED <<config, current_index, pub_raw, pub_compressed, frames, proc,
                   tickNo, hist>>

\* the failures injected so far: failed decodes, Raw and Compressed failures
Faults ==
    Cardinality({i \in DOMAIN hist : ~hist[i].decoded})
    + Cardinality({i \in DOMAIN hist : hist[i].raw \notin {"none", "published"}})
    + Cardinality({i \in DOMAIN hist : hist[i].comp \notin {"none", "published"}})

\* the environment may make one more call fail
MayFail == Faults < MaxFaults

\* what the calls inside the two try blocks can do
Exceptions == {"CvBridgeError", "RCLError", "cv2.error", "TypeError"}

\* cv2.imread(img_path), line 89: the decoded image (named by its path) or None
Imread(path) == {path, None}

\* lines 100-103: cv2_to_imgmsg and publish either succeed or raise
RawOutcomes(cv_img) ==
    IF cv_img = None THEN {"TypeError"} ELSE {"ok", "CvBridgeError", "RCLError"}

\* lines 109-120: imencode returns success or not, or it or publish raises
CompressedOutcomes(cv_img) ==
    IF cv_img = None THEN {"cv2.error"} ELSE {"ok", "not_success", "cv2.error", "RCLError"}

\* ---------------------------------------------------------------- executor
\* rclpy.spin(node), line 142: the default single-threaded executor runs one
\* callback at a time, to completion, in the thread that called spin; the timer
\* of line 78 is in the node's default mutually exclusive callback group
\* an executor that calls a ready timer while its callback is still running
CanDispatchReentrant(running) == TRUE

CanDispatch(running) == running = {}

\* a handler for the conversion error only
CaughtRawNarrow(exc) == exc = "CvBridgeError"

\* "except Exception", lines 104 and 124
CaughtRaw(exc) == exc \in Exceptions
CaughtCompressed(exc) == exc \in Exceptions

\* the Raw block entered again after its publish
AfterRawPublishAgain == "raw"

\* lines 103-108: after the Raw publish the callback goes on to the Compressed block
AfterRawPublish == "compressed"

\* a Raw handler that returns from the callback
AfterRawFailureReturn == "log"

\* lines 104-108: after the Raw handler the callback goes on to the Compressed block
AfterRawFailure == "compressed"

\* the clock read again when the Raw message is built
RawStampFresh(f) == clock

\* the clock read a second time for the Compressed message
CompressedStampFresh(f) == clock

\* line 101 and line 110: the stamp each message is given
RawStamp(f) == f.timestamp
CompressedStamp(f) == f.timestamp

\* line 102 and line 111
RawFrameId(f) == frame_id
CompressedFrameId(f) == frame_id

\* the declared default of png_compression_level, line 29
EncodeLevelDefault == 3

\* line 115: the level handed to cv2.imencode
EncodeLevel == png_level

\* the position of a message among all messages published so far
NextSeq == Len(pub_raw) + Len(pub_compressed) + 1

\* ---------------------------------------------------------- timer_callback
\* lines 81-96: the guard, the read of the cursor, the decode and the timestamp
TimerCallbackBegin ==
    /\ proc = "spinning"
    /\ timer_ready
    /\ CanDispatch(frames)
    /\ timer_ready' = FALSE
    /\ tickNo' = tickNo + 1
    /\ IF IsIdle(images_path)
       THEN UNCHANGED <<current_index, frames, proc, hist>>
       ELSE IF current_index + 1 \notin DOMAIN images_path
       THEN \* IndexError at line 86 leaves the callback and spin
            /\ proc' = "crashed"
            /\ UNCHANGED <<current_index, frames, hist>>
       ELSE LET img_path == images_path[current_index + 1]
                rec == [tick |-> tickNo + 1, index |-> current_index,
                        path |-> img_path, decoded |-> FALSE, stamp |-> None,
                        raw |-> "none", comp |-> "none", logged |-> FALSE,
                        after |-> None]
            IN \E cv_img \in Imread(img_path) :
                 /\ cv_img = None => MayFail
                 /\ IF DecodeFailed(cv_img)
                    THEN /\ current_index' = AfterDecodeFailure(current_index, N)
                         /\ hist' = Append(hist, [rec EXCEPT !.after = Some(current_index')])
                         /\ UNCHANGED <<frames, proc>>
                    ELSE /\ frames' = frames \cup
                               {[tick |-> tickNo + 1, pc |-> "raw", img_path |-> img_path,
                                 cv_img |-> cv_img, timestamp |-> clock]}
                         /\ hist' = Append(hist, [rec EXCEPT !.decoded = cv_img # None,
                                                             !.stamp = Some(clock)])
                         /\ UNCHANGED <<current_index, proc>>
    /\ UNCHANGED <<config, pub_raw, pub_compressed, clock>>

\* lines 98-105: the Raw message
PublishRaw(f) ==
    /\ f.pc = "raw"
    /\ \E out \in RawOutcomes(f.cv_img) :
        /\ out # "ok" => MayFail
        /\ IF out = "ok"
           THEN /\ pub_raw' = Append(pub_raw,
                       [tick |-> f.tick, stamp |-> RawStamp(f), frame_id |-> RawFrameId(f),
                        encoding |-> "bgr8", data |-> f.cv_img, seq |-> NextSeq])
                /\ hist' = [hist EXCEPT ![f.tick].raw = "published"]
                /\ frames' = (frames \ {f}) \cup {[f EXCEPT !.pc = AfterRawPublish]}
                /\ UNCHANGED proc
           ELSE IF CaughtRaw(out)
           THEN /\ hist' = [hist EXCEPT ![f.tick].raw = "failed"]
                /\ frames' = (frames \ {f}) \cup {[f EXCEPT !.pc = AfterRawFailure]}
                /\ UNCHANGED <<pub_raw, proc>>
           ELSE /\ hist' = [hist EXCEPT ![f.tick].raw = "escaped"]
                /\ frames' = frames \ {f}
                /\ proc' = "crashed"
                /\ UNCHANGED pub_raw
    /\ UNCHANGED <<config, current_index, pub_compressed, timer_ready, clock, tickNo>>

\* lines 107-125: the Compressed message
PublishCompressed(f) ==
    /\ f.pc = "compressed"
    /\ \E out \in CompressedOutcomes(f.cv_img) :
        /\ out # "ok" => MayFail
        /\ IF out = "ok"
           THEN /\ pub_compressed' = Append(pub_compressed,
                       [tick |-> f.tick, stamp |-> CompressedStamp(f),
                        frame_id |-> CompressedFrameId(f), format |-> "png",
                        level |-> EncodeLevel, data |-> f.cv_img, seq |-> NextSeq])
                /\ hist' = [hist EXCEPT ![f.tick].comp = "published"]
                /\ frames' = (frames \ {f}) \cup {[f EXCEPT !.pc = "log"]}
                /\ UNCHANGED proc
           ELSE IF out = "not_success" \/ CaughtCompressed(out)
           THEN /\ hist' = [hist EXCEPT ![f.tick].comp = "failed"]
                /\ frames' = (frames \ {f}) \cup {[f EXCEPT !.pc = "log"]}
                /\ UNCHANGED <<pub_compressed, proc>>
           ELSE /\ hist' = [hist EXCEPT ![f.tick].comp = "escaped"]
                /\ frames' = frames \ {f}
                /\ proc' = "crashed"
                /\ UNCHANGED pub_compressed
    /\ UNCHANGED <<config, current_index, pub_raw, timer_ready, clock, tickNo>>

\* lines 127-131: the throttled log and the advance of the cursor
LogAndAdvance(f) ==
    /\ f.pc = "log"
    /\ current_index' = AdvanceIndex(current_index, N)
    /\ hist' = [hist EXCEPT ![f.tick].logged = LogDue(current_index),
                            ![f.tick].after = Some(current_index')]
    /\ frames' = frames \ {f}
    /\ UNCHANGED <<config, pub_raw, pub_compressed, timer_ready, clock, proc, tickNo>>

\* main, lines 141-147: SIGINT raises KeyboardInterrupt in the thread that runs
\* spin, between two bytecodes of whatever that thread executes.  Inside
\* timer_callback the two handlers catch Exception only, so the callback is left
\* where it is; main passes, destroys the node and shuts rclpy down
Interrupt ==
    /\ proc = "spinning"
    /\ proc' = "shutdown"
    /\ frames' = {}
    /\ timer_ready' = FALSE
    /\ UNCHANGED <<config, current_index, pub_raw, pub_compressed, clock, tickNo, hist>>

Next ==
    \/ TimerFire
    \/ Interrupt
    \/ TimerCallbackBegin
    \/ \E f \in frames : PublishRaw(f)
    \/ \E f \in frames : PublishCompressed(f)
    \/ \E f \in frames : LogAndAdvance(f)

Spec == Init /\ [][Next]_vars

SpecLoad == InitLoad /\ [][Next]_vars

\* ------------------------------------------------- the node run for ever
\* The same node with each tick taken as one step and without the record of
\* the run: hist holds the latest tick only, a channel its latest message (the
\* publishers keep the last message only, lines 58-62), and the clock is not
\* read.  No bound stops the timer and no bound limits the failures.

\* one timer period passes and the timer of line 78 becomes ready
TimerFireLive ==
    /\ proc = "spinning"
    /\ "timer" \in created
    /\ ~timer_ready
    /\ timer_ready' = TRUE
    /\ UNCHANGED <<config, current_index, pub_raw, pub_compressed, clock, frames,
                   proc, tickNo, hist>>

\* timer_callback, lines 81-131, from the guard to the advance of the cursor
TimerCallbackLive ==
    /\ proc = "spinning"
    /\ timer_ready
    /\ CanDispatch(frames)
    /\ timer_ready' = FALSE
    /\ IF IsIdle(images_path)
       THEN UNCHANGED <<current_index, pub_raw, pub_compressed, proc, hist>>
       ELSE IF current_index + 1 \notin DOMAIN images_path
       THEN /\ proc' = "crashed"
            /\ UNCHANGED <<current_index, pub_raw, pub_compressed, hist>>
       ELSE LET img_path == images_path[current_index + 1]
                f == [tick |-> 1, img_path |-> img_path, timestamp |-> clock]
                rec == [tick |-> 1, index |-> current_index,
                        path |-> img_path, decoded |-> FALSE, stamp |-> None,
                        raw |-> "none", comp |-> "none", logged |-> FALSE,
                        after |-> None]
            IN \E cv_img \in Imread(img_path) :
                 IF DecodeFailed(cv_img)
                 THEN /\ current_index' = AfterDecodeFailure(current_index, N)
                      /\ hist' = <<[rec EXCEPT !.after = Some(current_index')]>>
                      /\ UNCHANGED <<pub_raw, pub_compressed, proc>>
                 ELSE \E r \in RawOutcomes(cv_img), c \in CompressedOutcomes(cv_img) :
                      /\ pub_raw' =
                            IF r = "ok"
                            THEN <<[tick |-> 1, stamp |-> RawStamp(f),
                                    frame_id |-> RawFrameId(f), encoding |-> "bgr8",
                                    data |-> cv_img, seq |-> 1]>>
                            ELSE pub_raw
                      /\ pub_compressed' =
                            IF c = "ok"
                            THEN <<[tick |-> 1, stamp |-> CompressedStamp(f),
                                    frame_id |-> CompressedFrameId(f), format |-> "png",
                                    level |-> EncodeLevel, data |-> cv_img, seq |-> 2]>>
                            ELSE pub_compressed
                      /\ proc' =
                            IF (r = "ok" \/ CaughtRaw(r))
                               /\ (c \in {"ok", "not_success"} \/ CaughtCompressed(c))
                            THEN proc ELSE "crashed"
                      /\ current_index' =
                            IF proc' = "crashed" THEN current_index
                            ELSE AdvanceIndex(current_index, N)
                      /\ hist' = <<[rec EXCEPT
                            !.decoded = TRUE, !.stamp = Some(clock),
                            !.raw = IF r = "ok" THEN "published" ELSE "failed",
                            !.comp = IF c = "ok" THEN "published" ELSE "failed",
                            !.logged = LogDue(current_index),
                            !.after = IF proc' = "crashed" THEN None
                                      ELSE Some(current_index')]>>
    /\ UNCHANGED <<config, clock, frames, tickNo>>

NextLive ==
    \/ TimerFireLive
    \/ TimerCallbackLive
    \/ Interrupt

\* the executor calls a timer that is ready
SpecLive == Init /\ [][NextLive]_vars /\ WF_vars(TimerCallbackLive)

\* ------------------------------------------------------------------- types
TypeOK ==
    /\ current_index \in Nat
    /\ clock \in 0..MaxClock
    /\ tickNo \in 0..clock
    /\ proc \in {"spinning", "crashed", "shutdown"}
    /\ timer_ready \in BOOLEAN

\* ------------------------------------------------------------ the claims
\* tick i has returned
Done(i) == hist[i].after # None

\* the messages of tick i on a channel
OfTick(chan, i) == {k \in DOMAIN chan : chan[k].tick = i}

\* tick i is the first of N consecutive completed ticks whose decode succeeded
FullCycleFrom(i) ==
    /\ N > 0
    /\ i + N - 1 \in DOMAIN hist
    /\ \A j \in 0..(N - 1) : hist[i + j].decoded /\ Done(i + j)

\* C1: for a non-empty list of length N and any starting cursor c, N consecutive
\* ticks whose decode succeeds visit c, c+1 mod N, ..., c+N-1 mod N in that
\* order and leave the cursor at c again.
C1_CyclicReturn ==
    \A i \in DOMAIN hist :
        FullCycleFrom(i) =>
            /\ hist[i].index \in 0..(N - 1)
            /\ \A j \in 0..(N - 1) : hist[i + j].index = (hist[i].index + j) % N
            /\ hist[i + N - 1].after = Some(hist[i].index)

\* a full cycle over three frames that started in the middle of the list
C1_Witness ==
    /\ N = 3
    /\ \E i \in DOMAIN hist : FullCycleFrom(i) /\ hist[i].index = 1

\* C2: with an empty frame list no tick publishes on either channel, no
\* exception leaves timer_callback, and the cursor stays at 0.
C2_EmptyListIdle ==
    images_path = <<>> =>
        /\ pub_raw = <<>>
        /\ pub_compressed = <<>>
        /\ proc # "crashed"
        /\ frames = {}
        /\ current_index = 0

\* two ticks have run on an empty list
C2_Witness == images_path = <<>> /\ tickNo >= 2

\* C3: the Raw and the Compressed message of one tick carry the same stamp,
\* the one captured in that tick, and the configured frame_id.
C3_SameStampAndFrameId ==
    \A r \in DOMAIN pub_raw, c \in DOMAIN pub_compressed :
        pub_raw[r].tick = pub_compressed[c].tick =>
            /\ pub_raw[r].stamp = pub_compressed[c].stamp
            /\ Some(pub_raw[r].stamp) = hist[pub_raw[r].tick].stamp
            /\ pub_raw[r].frame_id = frame_id
            /\ pub_compressed[c].frame_id = frame_id

\* a tick published both messages although the clock moved on after its stamp
\* was taken
C3_Witness ==
    \E r \in DOMAIN pub_raw, c \in DOMAIN pub_compressed :
        /\ pub_raw[r].tick = pub_compressed[c].tick
        /\ pub_raw[r].stamp < clock
        /\ pub_compressed[c].seq = Len(pub_raw) + Len(pub_compressed)

\* C4 as stated: after a failed decode of frame k the next tick attempts
\* (k+1) mod N and never frame k, for every N >= 1.
C4_NoRetryAnyLength ==
    \A i \in DOMAIN hist :
        (~hist[i].decoded /\ i + 1 \in DOMAIN hist) =>
            /\ hist[i + 1].index = (hist[i].index + 1) % N
            /\ hist[i + 1].index # hist[i].index

\* C4: after a failed decode of frame k the next tick attempts (k+1) mod N,
\* which is another frame than k whenever the list holds at least two frames
\* (with a single frame the next tick attempts that frame again).
C4_SkipsFailedFrame ==
    \A i \in DOMAIN hist :
        (~hist[i].decoded /\ i + 1 \in DOMAIN hist) =>
            /\ hist[i + 1].index = (hist[i].index + 1) % N
            /\ N >= 2 => hist[i + 1].index # hist[i].index
            /\ N = 1 => hist[i + 1].index = hist[i].index

\* the last frame of a list of three failed to decode and the next tick ran
C4_Witness ==
    /\ N = 3
    /\ \E i \in DOMAIN hist :
        ~hist[i].decoded /\ hist[i].index = 2 /\ i + 1 \in DOMAIN hist

\* C5: in a tick whose decode succeeded both channels are attempted; a failure
\* on the Compressed channel leaves the Raw message of the tick published and a
\* failure on the Raw channel leaves the Compressed message to be published.
C5_ChannelIndependence ==
    \A i \in DOMAIN hist :
        (hist[i].decoded /\ Done(i)) =>
            /\ hist[i].raw \in {"published", "failed"}
            /\ hist[i].comp \in {"published", "failed"}
            /\ hist[i].raw = "published" <=> OfTick(pub_raw, i) # {}
            /\ hist[i].comp = "published" <=> OfTick(pub_compressed, i) # {}

\* one tick lost its Raw message and published the Compressed one, another
\* lost its Compressed message and published the Raw one
C5_Witness ==
    /\ \E i \in DOMAIN hist :
        Done(i) /\ hist[i].raw = "failed" /\ OfTick(pub_compressed, i) # {}
    /\ \E i \in DOMAIN hist :
        Done(i) /\ hist[i].comp = "failed" /\ OfTick(pub_raw, i) # {}

\* C6: with a non-empty list of length N the cursor is always in 0..N-1.
C6_CursorInRange ==
    N > 0 => current_index \in 0..(N - 1)

\* the cursor wrapped to 0 at the end of a list of three, one decode having failed
C6_Witness ==
    /\ N = 3
    /\ Len(hist) >= 3
    /\ hist[3].after = Some(0)
    /\ \E i \in 1..3 : ~hist[i].decoded

\* the directory of the scenario: a.png, c.jpg, b.png
ScenarioLoaded == img_folder.exists /\ img_folder.entries = {A_PNG, C_JPG, B_PNG}

\* C7: the loaded list is in lexicographic order whatever the discovery order
\* and the ticks visit it cyclically; a directory holding a.png, c.jpg, b.png
\* gives a.png, b.png, c.jpg, visited a.png, b.png, c.jpg, a.png by ticks 1-4.
C7_SortedCyclicPlayback ==
    /\ \A i, j \in DOMAIN images_path : i < j => StrLess(images_path[i], images_path[j])
    /\ \A i \in DOMAIN hist : hist[i].path = images_path[((i - 1) % N) + 1]
    /\ ScenarioLoaded =>
        /\ images_path = <<A_PNG, B_PNG, C_JPG>>
        /\ \A i \in DOMAIN hist :
            i <= 4 => hist[i].path = <<A_PNG, B_PNG, C_JPG, A_PNG>>[i]

\* four ticks have run on the directory of the scenario
C7_Witness == ScenarioLoaded /\ Len(hist) = 4 /\ Done(4)

\* a tick in which a decode, a Raw or a Compressed step failed
Failed(i) ==
    ~hist[i].decoded \/ hist[i].raw = "failed" \/ hist[i].comp = "failed"

\* C8: no decode, Raw or Compressed failure leaves timer_callback or stops the
\* spin, and the tick after a failed one is a normal tick on the next frame.
C8_FailuresContained ==
    /\ proc # "crashed"
    /\ \A i \in DOMAIN hist :
        /\ hist[i].raw # "escaped" /\ hist[i].comp # "escaped"
        /\ (Failed(i) /\ i + 1 \in DOMAIN hist) =>
            /\ Done(i)
            /\ hist[i + 1].index = (hist[i].index + 1) % N

\* a tick lost both messages and the next tick published both
C8_Witness ==
    \E i \in DOMAIN hist :
        /\ hist[i].raw = "failed" /\ hist[i].comp = "failed"
        /\ i + 1 \in DOMAIN hist
        /\ hist[i + 1].raw = "published" /\ hist[i + 1].comp = "published"

\* C9: at most one timer_callback is in progress at any time, also when the
\* timer becomes ready again during a tick; a tick starts only after the one
\* before it has returned, and advances the cursor it read.
C9_TicksSerialized ==
    /\ Cardinality(frames) <= 1
    /\ \A i \in DOMAIN hist :
        /\ i + 1 \in DOMAIN hist => Done(i) /\ hist[i].after = Some(hist[i + 1].index)
        /\ Done(i) => hist[i].after = Some(AdvanceIndex(hist[i].index, N))

\* the timer became ready again while a tick was between its two publishes
C9_Witness ==
    /\ timer_ready
    /\ \E f \in frames : f.pc = "compressed"

\* C10: a tick whose decode fails publishes on neither channel and captures no
\* timestamp.
C10_DecodeFailurePublishesNothing ==
    \A i \in DOMAIN hist :
        ~hist[i].decoded =>
            /\ OfTick(pub_raw, i) = {}
            /\ OfTick(pub_compressed, i) = {}
            /\ hist[i].stamp = None
            /\ hist[i].raw = "none" /\ hist[i].comp = "none"
            /\ \A f \in frames : f.tick # i

\* a decode failed between two ticks that published
C10_Witness ==
    \E i \in DOMAIN hist :
        /\ ~hist[i].decoded
        /\ OfTick(pub_raw, i - 1) # {}
        /\ OfTick(pub_compressed, i + 1) # {}

\* a code point in lower case
Lower(c) == IF c \in 65..90 THEN c + 32 ELSE c

\* the name ends in a case variant of .jpg, .jpeg or .png
HasImageExtension(name) ==
    \E t \in DOMAIN types :
        /\ Len(name) > Len(types[t])
        /\ \A i \in 1..Len(types[t]) :
            Lower(name[Len(name) - Len(types[t]) + i]) = types[t][i]

\* C11: the load accepts exactly the files of the directory whose extension is
\* a case variant of jpg, jpeg or png, each of them once.
C11_AcceptsCaseVariants ==
    img_folder.exists =>
        /\ {images_path[i] : i \in DOMAIN images_path}
             = {n \in img_folder.entries : HasImageExtension(n)}
        /\ \A i, j \in DOMAIN images_path : images_path[i] = images_path[j] => i = j

\* the Raw messages of the tick of the Compressed message c
RawPartners(c) == OfTick(pub_raw, pub_compressed[c].tick)

\* ticks that have returned and lost exactly the named channel
LostOnlyRaw == {i \in DOMAIN hist : Done(i) /\ hist[i].raw = "failed" /\ hist[i].comp = "published"}
LostOnlyCompressed == {i \in DOMAIN hist : Done(i) /\ hist[i].raw = "published" /\ hist[i].comp = "failed"}

\* the messages on a channel that belong to ticks that have returned
OfDoneTicks(chan) == {k \in DOMAIN chan : Done(chan[k].tick)}

\* C12 as stated: every Compressed message has exactly one Raw message of the
\* same tick with the same stamp, and the ticks that have returned published
\* as many Compressed as Raw messages.
C12_PairedOneToOne ==
    /\ \A c \in DOMAIN pub_compressed :
        /\ Cardinality(RawPartners(c)) = 1
        /\ \A r \in RawPartners(c) : pub_raw[r].stamp = pub_compressed[c].stamp
    /\ Cardinality(OfDoneTicks(pub_compressed)) = Cardinality(OfDoneTicks(pub_raw))

\* C12: a Compressed message has at most one Raw message of the same tick, and
\* that one has the same stamp; a tick in which both channels succeed publishes
\* one message on each, and over the ticks that have returned the two counts
\* differ by the ticks that lost only one channel.
C12_PairedUnlessOneChannelFails ==
    /\ \A c \in DOMAIN pub_compressed :
        /\ Cardinality(RawPartners(c)) <= 1
        /\ \A r \in RawPartners(c) : pub_raw[r].stamp = pub_compressed[c].stamp
        /\ RawPartners(c) = {} => hist[pub_compressed[c].tick].raw = "failed"
    /\ \A i \in DOMAIN hist :
        (Done(i) /\ hist[i].raw = "published" /\ hist[i].comp = "published") =>
            /\ Cardinality(OfTick(pub_raw, i)) = 1
            /\ Cardinality(OfTick(pub_compressed, i)) = 1
    /\ Cardinality(OfDoneTicks(pub_raw)) + Cardinality(LostOnlyRaw)
         = Cardinality(OfDoneTicks(pub_compressed)) + Cardinality(LostOnlyCompressed)

\* one tick published a pair after a period had passed since its stamp, and
\* another published a Compressed message without a Raw one
C12_Witness ==
    /\ \E c \in DOMAIN pub_compressed :
        RawPartners(c) # {} /\ pub_compressed[c].stamp < clock
                            /\ Done(pub_compressed[c].tick)
    /\ \E c \in DOMAIN pub_compressed :
        RawPartners(c) = {} /\ Done(pub_compressed[c].tick)

\* C13: once shutdown is requested no tick is in progress that will not finish:
\* every tick that started has run to its end, past both publish blocks and
\* the advance of the cursor, and the timer calls no further tick.
C13_CooperativeShutdown ==
    proc = "shutdown" =>
        /\ ~timer_ready
        /\ \A i \in DOMAIN hist :
            /\ Done(i)
            /\ hist[i].decoded => hist[i].raw # "none" /\ hist[i].comp # "none"

\* no entry of the directory matches one of the three patterns
NoMatchingFile ==
    \A n \in img_folder.entries : \A t \in DOMAIN types : ~GlobMatch(n, types[t])

\* C14: when the directory does not exist, or holds no matching file, startup
\* ends without a fatal error with an empty frame list, both publishers and
\* the timer are created, and the ticks of that timer leave the node idle.
C14_StartsIdleWithoutFrames ==
    (~img_folder.exists \/ NoMatchingFile) =>
        /\ images_path = <<>>
        /\ created = {"pub_raw", "pub_compressed", "timer"}
        /\ timer_period # None
        /\ proc # "crashed"
        /\ pub_raw = <<>> /\ pub_compressed = <<>> /\ hist = <<>>

\* the node was started on a directory that does not exist and its timer has
\* called the callback
C14_Witness == ~img_folder.exists /\ tickNo >= 1 /\ proc = "spinning"

Returned == {i \in DOMAIN hist : Done(i)}

\* C16: every tick on a non-empty list that returns has advanced the cursor by
\* exactly one modulo N, whether its decode and its two publishes succeeded or
\* failed; the cursor is the number of returned ticks modulo N.
C16_AdvancesByOne ==
    N > 0 =>
        /\ \A i \in Returned : hist[i].after = Some((hist[i].index + 1) % N)
        /\ \A i \in DOMAIN hist :
            i + 1 \in DOMAIN hist => hist[i + 1].index = (hist[i].index + 1) % N
        /\ current_index = Cardinality(Returned) % N

\* three ticks on a list of two have returned: one failed to decode, one lost
\* its Raw message, one published both
C16_Witness ==
    /\ N = 2
    /\ Cardinality(Returned) = 3
    /\ \E i, j, k \in Returned :
        /\ ~hist[i].decoded
        /\ hist[j].raw = "failed"
        /\ hist[k].raw = "published" /\ hist[k].comp = "published"

\* the latest tick read frame k
Attempted(k) == hist # <<>> /\ hist[1].index = k

\* C17: with a non-empty list and a timer that keeps firing, every frame of the
\* list is attempted again and again, whatever fails to decode.
C17_EveryFrameAgainAndAgain ==
    \A k \in 0..(MaxFiles - 1) :
        (k < N /\ []<><<TimerFireLive>>_vars) => []<>Attempted(k)

\* the last frame of a list of three failed to decode and the cursor is back
\* at the first frame
C17_Witness ==
    /\ N = 3
    /\ Attempted(2) /\ ~hist[1].decoded
    /\ current_index = 0
    /\ pub_raw # <<>>

\* C18: no step changes the frame list, the topic name, the frame_id, the
\* frequency or the compression level, and every Compressed message was
\* encoded with that level.
C18_ConfigurationReadOnly ==
    [][/\ <<images_path, topic_name, frame_id, freq, png_level>>'
            = <<images_path, topic_name, frame_id, freq, png_level>>
       /\ \A c \in DOMAIN pub_compressed' : pub_compressed'[c].level = png_level]_vars

\* two ticks have published Compressed messages under the overridden level
C18_Witness ==
    /\ png_level = 9
    /\ Len(pub_compressed) = 2
    /\ images_path = <<A_PNG, B_PNG>>
    /\ frames = {}

\* C19: the info log of line 129 is written on ticks 1, 16, 31, ... counted
\* from startup, whatever the length of the list and whatever decodes.
C19_LogEveryFifteenTicks ==
    \A i \in Returned : hist[i].logged <=> (i - 1) % 15 = 0

\* C20: a tick publishes at most one message on each channel, its Raw message
\* before its Compressed one, and on each channel the messages are in the
\* order of their ticks.
C20_OnePerChannelInOrder ==
    /\ \A i \in DOMAIN hist :
        /\ Cardinality(OfTick(pub_raw, i)) <= 1
        /\ Cardinality(OfTick(pub_compressed, i)) <= 1
    /\ \A r \in DOMAIN pub_raw, c \in DOMAIN pub_compressed :
        pub_raw[r].tick = pub_compressed[c].tick => pub_raw[r].seq < pub_compressed[c].seq
    /\ \A a, b \in DOMAIN pub_raw : a < b => pub_raw[a].tick < pub_raw[b].tick
    /\ \A a, b \in DOMAIN pub_compressed :
        a < b => pub_compressed[a].tick < pub_compressed[b].tick

\* two ticks have each published on both channels, with a tick between them
\* that published only its Compressed message
C20_Witness ==
    /\ Len(pub_raw) = 2
    /\ Len(pub_compressed) = 3
    /\ pub_raw[2].tick = 3
    /\ pub_compressed[3].tick = 3

====
